---- MODULE Spec2Model ----
(***************************************************************************)
(* The client half of geerpc: Call, the pending-call registry, send,       *)
(* receive, terminateCalls, Close, IsAvailable and dialTimeout.            *)
(*                                                                         *)
(* Every invoke (Client.Call) is one caller goroutine with its own Call    *)
(* object; the receive goroutine is the dispatch loop.  Code that runs     *)
(* under client.mu is one atomic step; client.sending is modelled as a     *)
(* lock with a holder because cc.Write happens while it is held.           *)
(***************************************************************************)
EXTENDS Integers, Sequences, FiniteSets, TLC

\* ------------------------------------------------------------------ bounds
NCalls == 2
MaxClose == 2
MaxLoops == 1

\* ------------------------------------------------------- program constants
\* make(chan *Call, 1) in Client.Call
DoneCap == 1

Calls == 1..NCalls
NoCall == 0
NoHolder == 0

Nil == "nil"
ErrShutdown == "connection is shutdown"
ErrCancelled == "rpc client: call failed"
ErrWrite == "write error"
ErrRemote == "remote error"
ErrReadingBody == "reading body"
ErrHeader == "read header error"
ErrBody == "read body error"
\* whatever cc.Close() returned
CodecCloseResult == "cc.Close()"
ErrOptions == "number of options is more than 1"
ErrDial == "net.DialTimeout error"
ErrTimeout == "rpc client: connect timeout"
ErrCodec == "invalid codec type"
ErrEncode == "encode error"
ErrHTTP == "unexpected HTTP response"

\* ------------------------------------------------------------ engine state
VARIABLES
    pc,          \* position of each caller goroutine inside Client.Call
    callSeq,     \* Call.Seq
    callError,   \* Call.Error
    callReply,   \* Call.Reply: 0 while unwritten, else the decoded body
    doneLen,     \* number of elements buffered in Call.Done
    ctxDone,     \* the caller's ctx.Done() is closed
    result,      \* what Client.Call returned
    sending,     \* holder of client.sending
    header,      \* client.header
    seq,         \* client.seq
    pending,     \* client.pending: Seq -> Call
    closing,     \* client.closing
    shutdown,    \* client.shutdown
    codecClosed, \* number of cc.Close() calls made
    wire,        \* request frames the server holds and has not answered
    recvPc,      \* position of the receive goroutine
    recvHeader,  \* receive's local header and the body that follows it
    recvCall,    \* receive's local call
    recvErr,     \* receive's local err
    closeRet,    \* return values of the Close calls made so far
    \* history, written by the actions and read only by the properties
    doneCnt,     \* number of call.done() executed per Call
    issued,      \* Seq values returned by successful registerCall, in order
    wrote,       \* cc.Write was invoked for the Call
    writeRet,    \* what cc.Write returned for the Call, "none" before it
    lateSubmit,  \* whether Close had returned and terminateCalls had run
                 \* when the caller entered send
    termSeen     \* pending and err as terminateCalls found them

engineVars == <<pc, callSeq, callError, callReply, doneLen, ctxDone, result,
                sending, header, seq, pending, closing, shutdown, codecClosed,
                wire, recvPc, recvHeader, recvCall, recvErr,
                closeRet, doneCnt, issued, wrote, writeRet, lateSubmit,
                termSeen>>

\* ------------------------------------------------------------- dial state
VARIABLES
    dialOpts,    \* the opts argument: how many, whether opts[0] is nil, and
                 \* the CodecType and ConnectTimeout of opts[0]
    dialFunc,    \* the clientFunc argument: NewClient or NewHTTPClient
    dialPc,      \* position of dialTimeout
    options,     \* the Option parseOptions returned
    conn,        \* the transport: "none", "open" or "closed"
    workerPc,    \* position of the goroutine that runs clientFunc
    workerRes,   \* the clientResult the goroutine computed
    dialRet,     \* what dialTimeout returned
    dialBranch   \* the receive that made dialTimeout return

dialVars == <<dialOpts, dialFunc, dialPc, options, conn, workerPc, workerRes,
              dialRet, dialBranch>>

\* ------------------------------------------------------------- lock state
\* The two mutexes of the Client and the goroutines that take them, with
\* the data of the engine left out: what each goroutine has still to do of
\* the function it is running, and who holds client.mu and client.sending.
VARIABLES
    lkTodo,      \* per goroutine, the lock operations and I/O still ahead
    lkHolder,    \* holder of "mu" and of "sending"
    lkRuns,      \* per goroutine, number of functions it has started
    lkRounds     \* rounds of its loop receive has begun

lockVars == <<lkTodo, lkHolder, lkRuns, lkRounds>>

vars == <<engineVars, dialVars, lockVars>>

\* the goroutines: one per Client.Call, receive, one that calls Close and
\* one that calls IsAvailable
RecvT == NCalls + 1
CloseT == NCalls + 2
AvailT == NCalls + 3
LockThreads == Calls \cup {RecvT, CloseT, AvailT}
Mutexes == {"mu", "sending"}

\* --------------------------------------------------------- pure operators
\* Call.ServiceMethod and Call.Args of the invoke made by caller c
ServiceMethodOf(c) == c
ArgsOf(c) == c
\* the body a server computes for a request carrying args
ReplyFor(args) == args

\* registerCall that forgets one of the two flags
registerRefused_ClosingOnly(cl, sd) == cl
registerRefused_ShutdownOnly(cl, sd) == sd

\* registerCall refuses when the client is closing or shut down
registerRefused(cl, sd) == cl \/ sd

\* a registerCall that does not advance client.seq
nextSeq_Stuck(s) == s

\* client.seq++
nextSeq(s) == s + 1

\* a lookup that ignores the key and takes any registered Call
lookupCall_Any(p, s) == IF DOMAIN p = {} THEN NoCall
                        ELSE p[CHOOSE k \in DOMAIN p : \A j \in DOMAIN p : k >= j]

\* call := client.pending[seq]
lookupCall(p, s) == IF s \in DOMAIN p THEN p[s] ELSE NoCall

\* a removeCall that empties the registry
deleteCall_All(p, s) == [k \in {} |-> 0]

\* a removeCall that returns the Call and leaves it registered
deleteCall_Keep(p, s) == p

\* delete(client.pending, seq)
deleteCall(p, s) == [k \in (DOMAIN p) \ {s} |-> p[k]]

\* client.pending[call.Seq] = call
insertCall(p, s, c) == [k \in (DOMAIN p) \cup {s} |-> IF k = s THEN c ELSE p[k]]

\* terminateCalls ranges over client.pending and leaves the map as it is
pendingAfterTerminate(p) == p

\* a terminateCalls that reports ErrShutdown instead of the cause
terminateError_Shutdown(err) == ErrShutdown

\* call.Error = err in terminateCalls
terminateError(err) == err

\* a Client.Call that returns call.Error, still nil, on the ctx.Done() branch
cancelError_CallError == Nil

\* the error Client.Call returns on the ctx.Done() branch
cancelError == ErrCancelled

\* a sending.Lock() that never waits
sendingFree_Always(holder) == TRUE

\* client.sending.Lock() returns only while nobody holds the mutex
sendingFree(holder) == holder = NoHolder

\* a receive that goes round whatever ReadBody returned
loopContinues_Always(err) == TRUE

\* for err == nil, the condition of the loop of receive
loopContinues(err) == err = Nil

\* a receive that drops the error string of the header
remoteError_Nil(h) == Nil

\* call.Error = errors.New(header.Error)
remoteError(h) == h.Error

\* a Close without the closing guard
closeRefused_Never(cl) == FALSE

\* Close refuses when closing is already set
closeRefused(cl) == cl

\* IsAvailable
isAvailable(cl, sd) == ~sd /\ ~cl

PendingCalls(p) == {p[k] : k \in DOMAIN p}

\* call.done() on every Call of the set cs; it blocks when a Done is full
CanDone(cs) == \A c \in cs : doneLen[c] < DoneCap

\* ------------------------------------------------------------------- Init
EmptyMap == [k \in {} |-> NoCall]
NoHeader == [Seq |-> 0, Error |-> "", body |-> 0]

EngineInit ==
    /\ pc = [c \in Calls |-> "idle"]
    /\ callSeq = [c \in Calls |-> 0]
    /\ callError = [c \in Calls |-> Nil]
    /\ callReply = [c \in Calls |-> 0]
    /\ doneLen = [c \in Calls |-> 0]
    /\ ctxDone = [c \in Calls |-> FALSE]
    /\ result = [c \in Calls |-> "none"]
    /\ sending = NoHolder
    /\ header = [ServiceMethod |-> 0, Seq |-> 0, Error |-> ""]
    /\ seq = 0
    /\ pending = EmptyMap
    /\ closing = FALSE
    /\ shutdown = FALSE
    /\ codecClosed = 0
    /\ wire = {}
    /\ recvPc = "read"
    /\ recvHeader = NoHeader
    /\ recvCall = NoCall
    /\ recvErr = Nil
    /\ closeRet = <<>>
    /\ doneCnt = [c \in Calls |-> 0]
    /\ issued = <<>>
    /\ wrote = [c \in Calls |-> FALSE]
    /\ writeRet = [c \in Calls |-> "none"]
    /\ lateSubmit = [c \in Calls |-> [closed |-> FALSE, terminated |-> FALSE]]
    /\ termSeen = [ran |-> FALSE, calls |-> {}, err |-> Nil]

\* -------------------------------------------------------------- dialing
\* the Option values a caller may pass
CodecTypes == {"", "gob", "unknown"}
\* ConnectTimeout: zero, or some positive duration
MaxTimeout == 1
Timeouts == 0..MaxTimeout
\* at most this many Options are passed
MaxOpts == 2

DefaultCodecType == "gob"
NoResult == [client |-> FALSE, err |-> Nil]

\* parseOptions: the Option to use, or the error
parseOptions(o) ==
    IF o.n = 0 \/ o.nilFirst
    THEN [err |-> Nil, CodecType |-> DefaultCodecType, ConnectTimeout |-> 0]
    ELSE IF o.n # 1
    THEN [err |-> ErrOptions, CodecType |-> "", ConnectTimeout |-> 0]
    ELSE [err |-> Nil,
          CodecType |-> IF o.codec = "" THEN DefaultCodecType ELSE o.codec,
          ConnectTimeout |-> o.timeout]

\* codec.NewCodecFuncMap[option.CodecType] is not nil
codecKnown(t) == t # "unknown"

\* a dialTimeout whose deferred function never closes the transport
deferClose_Skip(err, cn) == cn

\* the deferred function of dialTimeout: conn.Close() when err is not nil
deferClose(err, cn) == IF err # Nil THEN "closed" ELSE cn

\* the state of a dial that has returned the Client the engine state is of
DialDone ==
    /\ dialOpts = [n |-> 0, nilFirst |-> FALSE, codec |-> "", timeout |-> 0]
    /\ dialFunc = "NewClient"
    /\ dialPc = "returned"
    /\ options = parseOptions(dialOpts)
    /\ conn = "open"
    /\ workerPc = "done"
    /\ workerRes = [client |-> TRUE, err |-> Nil]
    /\ dialRet = [client |-> TRUE, err |-> Nil]
    /\ dialBranch = "result"

\* no goroutine is inside a function of the Client, both mutexes are free
LockIdle ==
    /\ lkTodo = [t \in LockThreads |-> <<>>]
    /\ lkHolder = [l \in Mutexes |-> NoHolder]
    /\ lkRuns = [t \in LockThreads |-> 0]
    /\ lkRounds = 0

Init == EngineInit /\ DialDone /\ LockIdle

\* a dial about to start, on any arguments; no Client exists yet
DialInit ==
    /\ EngineInit
    /\ dialOpts \in [n : 0..MaxOpts, nilFirst : BOOLEAN, codec : CodecTypes,
                     timeout : Timeouts]
    /\ dialOpts.n = 0 => (~dialOpts.nilFirst /\ dialOpts.codec = ""
                          /\ dialOpts.timeout = 0)
    /\ dialOpts.nilFirst => (dialOpts.codec = "" /\ dialOpts.timeout = 0)
    /\ dialFunc \in {"NewClient", "NewHTTPClient"}
    /\ dialPc = "start"
    /\ options = [err |-> Nil, CodecType |-> "", ConnectTimeout |-> 0]
    /\ conn = "none"
    /\ workerPc = "none"
    /\ workerRes = NoResult
    /\ dialRet = NoResult
    /\ dialBranch = "none"
    /\ LockIdle

\* dialTimeout up to the start of the goroutine: parseOptions, then
\* net.DialTimeout, each of which may end the dial before a transport is
\* open.
dialTimeout_open ==
    /\ dialPc = "start"
    /\ LET o == parseOptions(dialOpts)
       IN /\ options' = o
          /\ IF o.err # Nil
             THEN /\ dialRet' = [client |-> FALSE, err |-> o.err]
                  /\ dialPc' = "returned"
                  /\ dialBranch' = "parseOptions"
                  /\ UNCHANGED <<conn, workerPc>>
             ELSE \E ok \in BOOLEAN :
                     IF ok
                     THEN /\ conn' = "open"
                          /\ workerPc' = "clientFunc"
                          /\ dialPc' = "wait"
                          /\ UNCHANGED <<dialRet, dialBranch>>
                     ELSE /\ dialRet' = [client |-> FALSE, err |-> ErrDial]
                          /\ dialPc' = "returned"
                          /\ dialBranch' = "net.DialTimeout"
                          /\ UNCHANGED <<conn, workerPc>>
    /\ UNCHANGED <<dialOpts, dialFunc, workerRes>>
    /\ UNCHANGED <<engineVars, lockVars>>

\* NewClient(conn, option): an unknown codec type is an error; a failed
\* encoding of the option closes conn and is an error; else the Client.
NewClient(encodeOk) ==
    IF ~codecKnown(options.CodecType)
    THEN [res |-> [client |-> FALSE, err |-> ErrCodec], closes |-> FALSE]
    ELSE IF ~encodeOk
    THEN [res |-> [client |-> FALSE, err |-> ErrEncode], closes |-> TRUE]
    ELSE [res |-> [client |-> TRUE, err |-> Nil], closes |-> FALSE]

\* NewHTTPClient(conn, opt): NewClient when the response to CONNECT has
\* the connected status, else an error.
NewHTTPClient(connected, encodeOk) ==
    IF connected
    THEN NewClient(encodeOk)
    ELSE [res |-> [client |-> FALSE, err |-> ErrHTTP], closes |-> FALSE]

\* the goroutine: client, err := clientFunc(conn, options)
worker_clientFunc ==
    /\ workerPc = "clientFunc"
    /\ \E connected \in BOOLEAN, encodeOk \in BOOLEAN :
          LET r == IF dialFunc = "NewHTTPClient"
                   THEN NewHTTPClient(connected, encodeOk)
                   ELSE NewClient(encodeOk)
          IN /\ workerRes' = r.res
             /\ conn' = IF r.closes THEN "closed" ELSE conn
    /\ workerPc' = "send"
    /\ UNCHANGED <<dialOpts, dialFunc, dialPc, options, dialRet, dialBranch>>
    /\ UNCHANGED <<engineVars, lockVars>>

\* result := <-ch, in either place dialTimeout receives: the goroutine's
\* send on the unbuffered ch completes, and dialTimeout returns the result.
dialTimeout_result ==
    /\ dialPc = "wait"
    /\ workerPc = "send"
    /\ workerPc' = "done"
    /\ dialRet' = workerRes
    /\ conn' = deferClose(workerRes.err, conn)
    /\ dialBranch' = "result"
    /\ dialPc' = "returned"
    /\ UNCHANGED <<dialOpts, dialFunc, options, workerRes>>
    /\ UNCHANGED <<engineVars, lockVars>>

\* case <-time.After(options.ConnectTimeout), which dialTimeout reaches
\* only with a ConnectTimeout that is not zero.
dialTimeout_timer ==
    /\ dialPc = "wait"
    /\ options.ConnectTimeout # 0
    /\ dialRet' = [client |-> FALSE, err |-> ErrTimeout]
    /\ conn' = deferClose(ErrTimeout, conn)
    /\ dialBranch' = "timer"
    /\ dialPc' = "returned"
    /\ UNCHANGED <<dialOpts, dialFunc, options, workerPc, workerRes>>
    /\ UNCHANGED <<engineVars, lockVars>>

DialNext ==
    \/ dialTimeout_open
    \/ worker_clientFunc
    \/ dialTimeout_result
    \/ dialTimeout_timer

DialSpec == DialInit /\ [][DialNext]_vars

\* The goroutines of a dial are scheduled: dialTimeout goes on to the
\* handshake, the worker runs clientFunc to its end, and a send on ch that
\* meets the receive of dialTimeout completes.  The timer is left free to
\* fire or not.
DialFairness ==
    /\ WF_vars(dialTimeout_open)
    /\ WF_vars(worker_clientFunc)
    /\ WF_vars(dialTimeout_result)

FairDialSpec == DialSpec /\ DialFairness

\* ------------------------------------------------------- caller goroutines
\* Client.Call enters Client.Go, which builds the Call (Seq 0, a Done channel
\* of capacity 1) and enters send: sending.Lock(), registerCall, and either
\* the refusal path (call.Error = err; call.done(); unlock) or the filling
\* of client.header.  A caller waiting for client.sending has done nothing
\* yet, so the invoke is placed at the moment it gets the lock.
send(c) ==
    /\ UNCHANGED <<dialVars, lockVars>>
    /\ pc[c] = "idle"
    /\ \A d \in Calls : d < c => pc[d] # "idle"
    /\ sendingFree(sending)
    /\ lateSubmit' = [lateSubmit EXCEPT ![c] =
                        [closed |-> Len(closeRet) > 0, terminated |-> termSeen.ran]]
    /\ IF registerRefused(closing, shutdown)
       THEN /\ CanDone({c})
            /\ callError' = [callError EXCEPT ![c] = ErrShutdown]
            /\ doneLen' = [doneLen EXCEPT ![c] = @ + 1]
            /\ doneCnt' = [doneCnt EXCEPT ![c] = @ + 1]
            /\ pc' = [pc EXCEPT ![c] = "wait"]
            /\ UNCHANGED <<callSeq, pending, seq, header, sending, issued>>
       ELSE /\ callSeq' = [callSeq EXCEPT ![c] = seq]
            /\ pending' = insertCall(pending, seq, c)
            /\ seq' = nextSeq(seq)
            /\ issued' = Append(issued, seq)
            /\ header' = [ServiceMethod |-> ServiceMethodOf(c), Seq |-> seq,
                          Error |-> ""]
            /\ sending' = c
            /\ pc' = [pc EXCEPT ![c] = "write"]
            /\ UNCHANGED <<callError, doneLen, doneCnt>>
    /\ UNCHANGED <<callReply, ctxDone, result, closing, shutdown, codecClosed,
                   wire, recvPc, recvHeader, recvCall, recvErr, closeRet,
                   wrote, writeRet, termSeen>>

\* send: cc.Write(&client.header, call.Args).  On an open codec a write
\* that succeeds hands the frame to the server, and one that fails may
\* still have delivered it; on a closed codec nothing is delivered, whatever
\* Write reports.  After a success send returns.
send_Write(c) ==
    /\ UNCHANGED <<dialVars, lockVars>>
    /\ pc[c] = "write"
    /\ sending = c
    /\ wrote' = [wrote EXCEPT ![c] = TRUE]
    /\ \E ok \in BOOLEAN, delivered \in BOOLEAN :
          /\ (ok /\ codecClosed = 0) => delivered
          /\ codecClosed > 0 => ~delivered
          /\ wire' = IF delivered
                     THEN wire \cup {[Seq |-> header.Seq,
                                      ServiceMethod |-> header.ServiceMethod,
                                      Args |-> ArgsOf(c)]}
                     ELSE wire
          /\ writeRet' = [writeRet EXCEPT ![c] = IF ok THEN Nil ELSE ErrWrite]
          /\ IF ok
             THEN /\ sending' = NoHolder
                  /\ pc' = [pc EXCEPT ![c] = "wait"]
             ELSE /\ sending' = sending
                  /\ pc' = [pc EXCEPT ![c] = "writeFailed"]
    /\ UNCHANGED <<callSeq, callError, callReply, doneLen, ctxDone, result,
                   header, seq, pending, closing, shutdown, codecClosed,
                   recvPc, recvHeader, recvCall, recvErr, closeRet,
                   doneCnt, issued, lateSubmit, termSeen>>

\* send, after a failed write: removeCall(seq); when the Call is still
\* registered it gets the write error and is signalled; sending.Unlock().
send_removeCall(c) ==
    /\ UNCHANGED <<dialVars, lockVars>>
    /\ pc[c] = "writeFailed"
    /\ sending = c
    /\ LET s == header.Seq
           found == lookupCall(pending, s)
       IN /\ pending' = deleteCall(pending, s)
          /\ IF found # NoCall
             THEN /\ CanDone({found})
                  /\ callError' = [callError EXCEPT ![found] = ErrWrite]
                  /\ doneLen' = [doneLen EXCEPT ![found] = @ + 1]
                  /\ doneCnt' = [doneCnt EXCEPT ![found] = @ + 1]
             ELSE UNCHANGED <<callError, doneLen, doneCnt>>
    /\ sending' = NoHolder
    /\ pc' = [pc EXCEPT ![c] = "wait"]
    /\ UNCHANGED <<callSeq, callReply, ctxDone, result, header, seq, closing,
                   shutdown, codecClosed, wire, recvPc, recvHeader,
                   recvCall, recvErr, closeRet, issued, wrote, writeRet,
                   lateSubmit, termSeen>>

\* Client.Call, case <-ctx.Done(): removeCall(call.Seq) and the
\* cancellation error is returned.
Call_ctxDone(c) ==
    /\ UNCHANGED <<dialVars, lockVars>>
    /\ pc[c] = "wait"
    /\ ctxDone[c]
    /\ pending' = deleteCall(pending, callSeq[c])
    /\ result' = [result EXCEPT ![c] = cancelError]
    /\ pc' = [pc EXCEPT ![c] = "returned"]
    /\ UNCHANGED <<callSeq, callError, callReply, doneLen, ctxDone, sending,
                   header, seq, closing, shutdown, codecClosed, wire, recvPc, recvHeader, recvCall, recvErr, closeRet,
                   doneCnt, issued, wrote, writeRet, lateSubmit, termSeen>>

\* Client.Call, case call = <-call.Done: call.Error is returned.
Call_Done(c) ==
    /\ UNCHANGED <<dialVars, lockVars>>
    /\ pc[c] = "wait"
    /\ doneLen[c] > 0
    /\ doneLen' = [doneLen EXCEPT ![c] = @ - 1]
    /\ result' = [result EXCEPT ![c] = callError[c]]
    /\ pc' = [pc EXCEPT ![c] = "returned"]
    /\ UNCHANGED <<callSeq, callError, callReply, ctxDone, sending, header,
                   seq, pending, closing, shutdown, codecClosed, wire, recvPc, recvHeader, recvCall, recvErr, closeRet,
                   doneCnt, issued, wrote, writeRet, lateSubmit, termSeen>>

\* The caller's context is cancelled.  ctx.Done() is read only by the select
\* of Client.Call, so the cancellation is placed while the caller is there.
ctxCancel(c) ==
    /\ UNCHANGED <<dialVars, lockVars>>
    /\ pc[c] = "wait"
    /\ ~ctxDone[c]
    /\ ctxDone' = [ctxDone EXCEPT ![c] = TRUE]
    /\ UNCHANGED <<pc, callSeq, callError, callReply, doneLen, result, sending,
                   header, seq, pending, closing, shutdown, codecClosed,
                   wire, recvPc, recvHeader, recvCall, recvErr,
                   closeRet, doneCnt, issued, wrote, writeRet, lateSubmit,
                   termSeen>>

\* ---------------------------------------------------- receive goroutine
\* receive: cc.ReadHeader succeeds with the response to a frame the server
\* holds, then removeCall(header.Seq).  The response carries either an
\* error string or the body computed from the request's args.
receive_ReadHeader ==
    /\ UNCHANGED <<dialVars, lockVars>>
    /\ recvPc = "read"
    /\ \E f \in wire, herr \in {"", ErrRemote} :
          /\ wire' = wire \ {f}
          /\ recvHeader' = [Seq |-> f.Seq, Error |-> herr,
                            body |-> ReplyFor(f.Args)]
          /\ recvCall' = lookupCall(pending, f.Seq)
          /\ pending' = deleteCall(pending, f.Seq)
    /\ recvPc' = "body"
    /\ UNCHANGED <<pc, callSeq, callError, callReply, doneLen, ctxDone, result,
                   sending, header, seq, closing, shutdown, codecClosed,
                   recvErr, closeRet, doneCnt, issued,
                   wrote, writeRet, lateSubmit, termSeen>>

\* receive: the three cases of the switch, each ending in err = ReadBody.
\* A ReadBody that fails leaves the loop, one that succeeds goes round.
receive_ReadBody ==
    /\ UNCHANGED <<dialVars, lockVars>>
    /\ recvPc = "body"
    /\ \E ok \in BOOLEAN :
          /\ CASE recvCall = NoCall ->
                    UNCHANGED <<callError, callReply, doneLen, doneCnt>>
               [] recvCall # NoCall /\ recvHeader.Error # "" ->
                    /\ CanDone({recvCall})
                    /\ callError' = [callError EXCEPT ![recvCall] = remoteError(recvHeader)]
                    /\ doneLen' = [doneLen EXCEPT ![recvCall] = @ + 1]
                    /\ doneCnt' = [doneCnt EXCEPT ![recvCall] = @ + 1]
                    /\ UNCHANGED callReply
               [] OTHER ->
                    /\ CanDone({recvCall})
                    /\ callReply' = IF ok
                                    THEN [callReply EXCEPT ![recvCall] = recvHeader.body]
                                    ELSE callReply
                    /\ callError' = IF ok
                                    THEN callError
                                    ELSE [callError EXCEPT ![recvCall] = ErrReadingBody]
                    /\ doneLen' = [doneLen EXCEPT ![recvCall] = @ + 1]
                    /\ doneCnt' = [doneCnt EXCEPT ![recvCall] = @ + 1]
          /\ recvErr' = IF ok THEN Nil ELSE ErrBody
          /\ recvPc' = IF loopContinues(IF ok THEN Nil ELSE ErrBody)
                       THEN "read" ELSE "terminate"
    /\ recvHeader' = NoHeader
    /\ recvCall' = NoCall
    /\ UNCHANGED <<pc, callSeq, ctxDone, result, sending, header, seq, pending,
                   closing, shutdown, codecClosed, wire, closeRet,
                   issued, wrote, writeRet, lateSubmit, termSeen>>

\* receive: cc.ReadHeader fails, as it does when the transport breaks (at
\* any moment) or the codec has been closed; the loop is left.
receive_ReadHeaderErr ==
    /\ UNCHANGED <<dialVars, lockVars>>
    /\ recvPc = "read"
    /\ recvErr' = ErrHeader
    /\ recvPc' = "terminate"
    /\ UNCHANGED <<pc, callSeq, callError, callReply, doneLen, ctxDone, result,
                   sending, header, seq, pending, closing, shutdown,
                   codecClosed, wire, recvHeader, recvCall,
                   closeRet, doneCnt, issued, wrote, writeRet, lateSubmit,
                   termSeen>>

\* terminateCalls(err): with sending and mu held, shutdown is set and every
\* Call of client.pending gets err and is signalled.
terminateCalls ==
    /\ UNCHANGED <<dialVars, lockVars>>
    /\ recvPc = "terminate"
    /\ sendingFree(sending)
    /\ CanDone(PendingCalls(pending))
    /\ shutdown' = TRUE
    /\ callError' = [c \in Calls |->
                        IF c \in PendingCalls(pending)
                        THEN terminateError(recvErr) ELSE callError[c]]
    /\ doneLen' = [c \in Calls |->
                        IF c \in PendingCalls(pending) THEN doneLen[c] + 1 ELSE doneLen[c]]
    /\ doneCnt' = [c \in Calls |->
                        IF c \in PendingCalls(pending) THEN doneCnt[c] + 1 ELSE doneCnt[c]]
    /\ pending' = pendingAfterTerminate(pending)
    /\ termSeen' = [ran |-> TRUE, calls |-> PendingCalls(pending), err |-> recvErr]
    /\ recvPc' = "exited"
    /\ UNCHANGED <<pc, callSeq, callReply, ctxDone, result, sending, header,
                   seq, closing, codecClosed, wire, recvHeader,
                   recvCall, recvErr, closeRet, issued, wrote, writeRet,
                   lateSubmit>>

\* ------------------------------------------------- Close and IsAvailable
\* Close: refused with ErrShutdown when closing is set, else closing is set
\* and the codec is closed, whose own result is returned.
Close ==
    /\ UNCHANGED <<dialVars, lockVars>>
    /\ Len(closeRet) < MaxClose
    /\ IF closeRefused(closing)
       THEN /\ closeRet' = Append(closeRet, ErrShutdown)
            /\ UNCHANGED <<closing, codecClosed>>
       ELSE /\ closing' = TRUE
            /\ codecClosed' = codecClosed + 1
            /\ closeRet' = Append(closeRet, CodecCloseResult)
    /\ UNCHANGED <<pc, callSeq, callError, callReply, doneLen, ctxDone, result,
                   sending, header, seq, pending, shutdown, wire,
                   recvPc, recvHeader, recvCall, recvErr, doneCnt,
                   issued, wrote, writeRet, lateSubmit, termSeen>>

\* IsAvailable reads closing and shutdown under mu and changes nothing; its
\* return value is IsAvailableRet.
IsAvailableRet == isAvailable(closing, shutdown)

IsAvailable ==
    /\ IsAvailableRet \in BOOLEAN
    /\ UNCHANGED vars

\* ---------------------------------------------------------- specification
Next ==
    \/ \E c \in Calls : send(c)
    \/ \E c \in Calls : send_Write(c)
    \/ \E c \in Calls : send_removeCall(c)
    \/ \E c \in Calls : Call_ctxDone(c)
    \/ \E c \in Calls : Call_Done(c)
    \/ \E c \in Calls : ctxCancel(c)
    \/ receive_ReadHeader
    \/ receive_ReadBody
    \/ receive_ReadHeaderErr
    \/ terminateCalls
    \/ Close
    \/ IsAvailable

Spec == Init /\ [][Next]_vars

\* Scheduling: a goroutine that can take its next step takes it, the server
\* answers every frame it holds, and ReadHeader fails once the codec is
\* closed.  Nothing obliges a caller to start an invoke, a context to be
\* cancelled, Close to be called or an open transport to break.
Fairness ==
    /\ \A c \in Calls : WF_vars(send_Write(c))
    /\ \A c \in Calls : WF_vars(send_removeCall(c))
    /\ \A c \in Calls : WF_vars(Call_ctxDone(c))
    /\ \A c \in Calls : WF_vars(Call_Done(c))
    /\ WF_vars(receive_ReadHeader)
    /\ WF_vars(receive_ReadBody)
    /\ WF_vars(receive_ReadHeaderErr /\ codecClosed > 0)
    /\ WF_vars(terminateCalls)

FairSpec == Spec /\ Fairness

\* ------------------------------------------------------------- properties
\* a Call whose registration succeeded
Registered(c) == pc[c] = "write" \/ wrote[c]

\* C1: under fair scheduling every invoke that has entered send eventually
\* returns, and it returns once: a returned invoke has taken at most one
\* completion signal and stays returned with the result it got.
C1_EveryInvokeReturns ==
    /\ \A c \in Calls : (pc[c] # "idle") ~> (pc[c] = "returned")
    /\ [][\A c \in Calls : pc[c] = "returned" =>
             (pc'[c] = "returned" /\ result'[c] = result[c])]_vars

\* C2: no Call is ever signalled more than once: the number of call.done()
\* executed for one Call, by send, receive and terminateCalls together, is
\* at most one in every reachable state.
C2_DoneAtMostOnce == \A c \in Calls : doneCnt[c] <= 1

C2_Witness ==
    /\ termSeen.ran
    /\ \E c \in termSeen.calls : doneCnt[c] = 1
    /\ \E d \in Calls : d \notin termSeen.calls /\ doneCnt[d] = 1
                        /\ callError[d] \in {ErrWrite, ErrRemote, Nil}

\* C3: the Seq values issued by registerCall are 0, 1, 2, ... in
\* registration order, with no value issued twice, and client.seq is the
\* number of successful registrations; the registry holds only issued keys.
C3_SeqNumbers ==
    /\ issued = [i \in 1..Len(issued) |-> i - 1]
    /\ seq = Len(issued)
    /\ DOMAIN pending \subseteq 0..(seq - 1)
    /\ \A c, d \in Calls :
          (Registered(c) /\ Registered(d) /\ c # d) => callSeq[c] # callSeq[d]

C3_Witness ==
    /\ Len(issued) = NCalls
    /\ \E c \in Calls : result[c] = ErrCancelled /\ Registered(c)
    /\ Cardinality(DOMAIN pending) < NCalls

\* C4: a response body is decoded only into the reply slot of the Call
\* registered under the response header's Seq, so a reply slot holds
\* either nothing or the reply to its own caller's request.
C4_OwnReply ==
    /\ \A c \in Calls : callReply[c] \in {0, ReplyFor(ArgsOf(c))}
    /\ recvCall # NoCall => callSeq[recvCall] = recvHeader.Seq

C4_Witness ==
    /\ \A c \in Calls : Registered(c)
    /\ callReply[NCalls] = ReplyFor(ArgsOf(NCalls))
    /\ recvPc = "body"
    /\ recvCall = 1
    /\ recvHeader.Error = ""
    /\ callSeq[1] < callSeq[NCalls]

\* C5, as claimed: a failed header read completes every Call registered at
\* the moment terminateCalls runs with that error, availability becomes
\* false, and every invoke entering send afterwards fails at once with
\* ErrShutdown and writes no frame.
C5_AsClaimed ==
    /\ (termSeen.ran /\ termSeen.err = ErrHeader) =>
          /\ \A c \in termSeen.calls : callError[c] = ErrHeader /\ doneCnt[c] = 1
          /\ shutdown
          /\ ~IsAvailableRet
    /\ \A c \in Calls :
          (lateSubmit[c].terminated /\ termSeen.err = ErrHeader) =>
             /\ ~wrote[c]
             /\ pc[c] \in {"wait", "returned"}
             /\ pc[c] = "wait" => doneLen[c] = 1
             /\ pc[c] = "returned" => result[c] = ErrShutdown

\* C5, amended: the same, but an invoke entering send after the termination
\* returns ErrShutdown only if its context was not cancelled; in every case
\* its Call is completed with ErrShutdown at once and no frame is written.
C5_HeaderFailure ==
    /\ (termSeen.ran /\ termSeen.err = ErrHeader) =>
          /\ \A c \in termSeen.calls : callError[c] = ErrHeader /\ doneCnt[c] = 1
          /\ shutdown
          /\ ~IsAvailableRet
    /\ \A c \in Calls :
          (lateSubmit[c].terminated /\ termSeen.err = ErrHeader) =>
             /\ ~wrote[c]
             /\ pc[c] \in {"wait", "returned"}
             /\ callError[c] = ErrShutdown
             /\ doneCnt[c] = 1
             /\ pc[c] = "wait" => doneLen[c] = 1
             /\ (pc[c] = "returned" /\ ~ctxDone[c]) => result[c] = ErrShutdown
             /\ pc[c] = "returned" => result[c] \in {ErrShutdown, ErrCancelled}

C5_Witness ==
    /\ termSeen.ran
    /\ termSeen.err = ErrHeader
    /\ termSeen.calls # {}
    /\ ~closing
    /\ \E c \in Calls : /\ lateSubmit[c].terminated
                        /\ pc[c] = "returned"
                        /\ result[c] = ErrShutdown

\* C6: an invoke that enters send after Close has returned is refused:
\* its Call gets ErrShutdown, cc.Write is never invoked for it, and unless
\* its context was cancelled it returns ErrShutdown.
C6_AfterClose ==
    \A c \in Calls :
       lateSubmit[c].closed =>
          /\ ~wrote[c]
          /\ pc[c] \in {"wait", "returned"}
          /\ callError[c] = ErrShutdown
          /\ (pc[c] = "returned" /\ ~ctxDone[c]) => result[c] = ErrShutdown

C6_Witness ==
    \E c \in Calls :
       /\ lateSubmit[c].closed
       /\ ~lateSubmit[c].terminated
       /\ pc[c] = "returned"
       /\ result[c] = ErrShutdown
       /\ \E d \in Calls : wrote[d]

\* C7: only the first Close closes the codec; every later Close returns
\* ErrShutdown, so cc.Close() is invoked at most once.
C7_CloseOnce ==
    /\ codecClosed <= 1
    /\ codecClosed = (IF Len(closeRet) > 0 THEN 1 ELSE 0)
    /\ Len(closeRet) > 0 => (closing /\ closeRet[1] = CodecCloseResult)
    /\ \A i \in 2..Len(closeRet) : closeRet[i] = ErrShutdown

C7_Witness == Len(closeRet) >= 2 /\ closeRet[2] = ErrShutdown

\* the step of Client.Call that takes the ctx.Done() branch
CancelStep(c) == pc[c] = "wait" /\ pc'[c] = "returned" /\ doneLen'[c] = doneLen[c]

\* the step of receive that discards the body of a response no Call is
\* registered for
DiscardStep == recvPc = "body" /\ recvCall = NoCall /\ recvPc' # "body"

\* C8, as claimed: an in-flight invoke whose context is cancelled before it
\* takes its completion signal returns the cancellation error and its Call
\* is no longer registered; a response arriving later for that Seq is
\* discarded without touching any Call and without ending the loop.
C8_AsClaimed ==
    /\ [](\A c \in Calls :
             (pc[c] = "returned" /\ Registered(c) /\ ctxDone[c]) =>
                 /\ result[c] = ErrCancelled
                 /\ callSeq[c] \notin DOMAIN pending)
    /\ [][DiscardStep =>
             /\ callReply' = callReply
             /\ callError' = callError
             /\ doneCnt' = doneCnt
             /\ doneLen' = doneLen
             /\ pending' = pending
             /\ recvPc' = "read"]_vars

\* C8, amended: an in-flight invoke that takes the ctx.Done() branch
\* returns the cancellation error and its Call is no longer registered
\* (with the context cancelled and the signal ready as well, the select
\* may take either); a response arriving later for that Seq is discarded
\* without touching any Call, and the loop goes on when that read succeeds.
C8_Cancellation ==
    /\ [](\A c \in Calls :
             (pc[c] = "returned" /\ Registered(c) /\ result[c] = ErrCancelled) =>
                 /\ ctxDone[c]
                 /\ callSeq[c] \notin DOMAIN pending)
    /\ [][\A c \in Calls :
             (CancelStep(c) /\ Registered(c)) =>
                 /\ result'[c] = ErrCancelled
                 /\ callSeq[c] \notin DOMAIN pending'
                 /\ \A k \in DOMAIN pending : k # callSeq[c] =>
                        (k \in DOMAIN pending' /\ pending'[k] = pending[k])]_vars
    /\ [][DiscardStep =>
             /\ callReply' = callReply
             /\ callError' = callError
             /\ doneCnt' = doneCnt
             /\ doneLen' = doneLen
             /\ pending' = pending
             /\ recvPc' \in {"read", "terminate"}
             /\ recvPc' = "terminate" => recvErr' = ErrBody]_vars

C8_Witness ==
    /\ recvPc = "body"
    /\ recvCall = NoCall
    /\ \E c \in Calls : /\ pc[c] = "returned"
                        /\ Registered(c)
                        /\ result[c] = ErrCancelled
                        /\ callSeq[c] = recvHeader.Seq
    /\ \E d \in PendingCalls(pending) : pc[d] = "wait" /\ doneLen[d] = 0

\* C9: every error return of dialTimeout made after the transport was
\* opened leaves the transport closed; a return by the timer is the timeout
\* error with no Client; with a ConnectTimeout of zero dialTimeout returns
\* only by receiving the goroutine's result, which it returns unchanged.
C9_DialClosesTransport ==
    dialPc = "returned" =>
       /\ (dialRet.err # Nil /\ conn # "none") => conn = "closed"
       /\ dialRet.err # Nil => ~dialRet.client
       /\ dialBranch = "timer" =>
             /\ dialRet = [client |-> FALSE, err |-> ErrTimeout]
             /\ options.ConnectTimeout # 0
       /\ dialBranch = "result" => (workerPc = "done" /\ dialRet = workerRes)
       /\ (options.ConnectTimeout = 0 /\ conn # "none") => dialBranch = "result"
       /\ dialRet.err = Nil => (dialRet.client /\ conn = "open")

C9_Witness ==
    /\ dialPc = "returned"
    /\ dialBranch = "timer"
    /\ conn = "closed"
    /\ workerPc = "send"
    /\ workerRes.client

Lock(l) == [op |-> "lock", m |-> l]
Unlock(l) == [op |-> "unlock", m |-> l]
\* a statement whose outcome decides what the goroutine does next
Io(n) == [op |-> "io", m |-> n]

\* removeCall: client.mu.Lock(); defer client.mu.Unlock()
removeCallLocks == <<Lock("mu"), Unlock("mu")>>

\* Client.Call, up to the test of registerCall: Go runs send, which takes
\* client.sending, and registerCall takes client.mu
CallLocks == <<Lock("sending"), Lock("mu"), Io("registerCall")>>

\* a terminateCalls that takes the registry lock first
terminateLockOrder_Reversed == <<"mu", "sending">>

\* terminateCalls: client.sending.Lock() and then client.mu.Lock()
terminateLockOrder == <<"sending", "mu">>

\* terminateCalls: the two Lock calls, and the deferred Unlock calls in the
\* reverse order.  The call.done() of its loop do not wait: the Done of
\* a Call made by Client.Call has room for its one signal.
terminateCallsLocks ==
    <<Lock(terminateLockOrder[1]), Lock(terminateLockOrder[2]),
      Unlock(terminateLockOrder[2]), Unlock(terminateLockOrder[1])>>

\* receive starts at the ReadHeader of its loop
receiveLocks == <<Io("ReadHeader")>>

\* Close: client.mu.Lock(); defer client.mu.Unlock()
CloseLocks == <<Lock("mu"), Unlock("mu")>>

\* IsAvailable: client.mu.Lock(); defer client.mu.Unlock()
IsAvailableLocks == <<Lock("mu"), Unlock("mu")>>

\* what is left for a goroutine to do after statement n, by its outcome
LkAfter(n) ==
    CASE n = "registerCall" ->
            \* refused: mu.Unlock(), call.done(), sending.Unlock(), select;
            \* registered: mu.Unlock(), cc.Write
            {<<Unlock("mu"), Unlock("sending"), Io("select")>>,
             <<Unlock("mu"), Io("Write")>>}
      [] n = "Write" ->
            \* nil: sending.Unlock(); an error: removeCall first
            {<<Unlock("sending"), Io("select")>>,
             removeCallLocks \o <<Unlock("sending"), Io("select")>>}
      [] n = "select" ->
            \* case call = <-call.Done; case <-ctx.Done(): removeCall
            {<<>>, removeCallLocks}
      [] n = "ReadHeader" ->
            \* an error: break, terminateCalls; nil: removeCall, ReadBody
            {terminateCallsLocks}
            \cup (IF lkRounds < MaxLoops
                  THEN {removeCallLocks \o <<Io("ReadBody")>>} ELSE {})
      [] n = "ReadBody" ->
            \* nil: the loop goes round; an error: terminateCalls
            {<<Io("ReadHeader")>>, terminateCallsLocks}

\* the function goroutine t runs
LkFunction(t) ==
    CASE t \in Calls -> CallLocks
      [] t = RecvT -> receiveLocks
      [] t = CloseT -> CloseLocks
      [] OTHER -> IsAvailableLocks

\* how many times goroutine t runs its function: Close may be called again
LkRunsOf(t) == IF t = CloseT THEN MaxClose ELSE 1

\* goroutine t enters its function; the callers, which are alike, in the
\* order of their numbers
LkStart(t) ==
    /\ lkTodo[t] = <<>>
    /\ lkRuns[t] < LkRunsOf(t)
    /\ t \in Calls => \A d \in Calls : d < t => lkRuns[d] > 0
    /\ lkTodo' = [lkTodo EXCEPT ![t] = LkFunction(t)]
    /\ lkRuns' = [lkRuns EXCEPT ![t] = @ + 1]
    /\ UNCHANGED <<lkHolder, lkRounds, engineVars, dialVars>>

\* Mutex.Lock returns once the mutex is free
LkAcquire(t) ==
    /\ lkTodo[t] # <<>>
    /\ Head(lkTodo[t]).op = "lock"
    /\ lkHolder[Head(lkTodo[t]).m] = NoHolder
    /\ lkHolder' = [lkHolder EXCEPT ![Head(lkTodo[t]).m] = t]
    /\ lkTodo' = [lkTodo EXCEPT ![t] = Tail(@)]
    /\ UNCHANGED <<lkRuns, lkRounds, engineVars, dialVars>>

\* Mutex.Unlock
LkRelease(t) ==
    /\ lkTodo[t] # <<>>
    /\ Head(lkTodo[t]).op = "unlock"
    /\ lkHolder[Head(lkTodo[t]).m] = t
    /\ lkHolder' = [lkHolder EXCEPT ![Head(lkTodo[t]).m] = NoHolder]
    /\ lkTodo' = [lkTodo EXCEPT ![t] = Tail(@)]
    /\ UNCHANGED <<lkRuns, lkRounds, engineVars, dialVars>>

\* a statement that takes no mutex ends, with one of its outcomes
LkIo(t) ==
    /\ lkTodo[t] # <<>>
    /\ Head(lkTodo[t]).op = "io"
    /\ \E rest \in LkAfter(Head(lkTodo[t]).m) :
          /\ lkTodo' = [lkTodo EXCEPT ![t] = rest]
          /\ lkRounds' = IF Head(lkTodo[t]).m = "ReadHeader"
                            /\ rest # terminateCallsLocks
                         THEN lkRounds + 1 ELSE lkRounds
    /\ UNCHANGED <<lkHolder, lkRuns, engineVars, dialVars>>

\* a goroutine inside a function takes its next step
LkProgress == \E t \in LockThreads : LkAcquire(t) \/ LkRelease(t) \/ LkIo(t)

LockNext ==
    \/ \E t \in LockThreads : LkStart(t)
    \/ \E t \in LockThreads : LkAcquire(t)
    \/ \E t \in LockThreads : LkRelease(t)
    \/ \E t \in LockThreads : LkIo(t)

LockSpec == Init /\ [][LockNext]_vars

\* goroutine t is in Mutex.Lock and the mutex is held
LkBlocked(t) ==
    /\ lkTodo[t] # <<>>
    /\ Head(lkTodo[t]).op = "lock"
    /\ lkHolder[Head(lkTodo[t]).m] # NoHolder

\* goroutine t wants mutex l next
LkWants(t, l) ==
    lkTodo[t] # <<>> /\ Head(lkTodo[t]).op = "lock" /\ Head(lkTodo[t]).m = l

\* receive has a ReadHeader or a ReadBody still ahead: it is in its loop
LkInLoop == \E i \in DOMAIN lkTodo[RecvT] : lkTodo[RecvT][i].op = "io"

\* the step of receive that handles a response some Call is registered for,
\* whose header carries no error and whose body fails to decode
DecodeFailStep ==
    /\ recvPc = "body"
    /\ recvPc' # "body"
    /\ recvCall # NoCall
    /\ recvHeader.Error = ""
    /\ recvErr' = ErrBody

\* C11, as claimed: only a failed header read leads to terminateCalls; a
\* body that fails to decode gives its Call the error and the signal, the
\* loop goes round, shutdown stays false and no other Call is touched.
C11_AsClaimed ==
    /\ [](termSeen.ran => termSeen.err = ErrHeader)
    /\ [][DecodeFailStep =>
             /\ callError'[recvCall] = ErrReadingBody
             /\ doneCnt'[recvCall] = doneCnt[recvCall] + 1
             /\ \A d \in Calls \ {recvCall} :
                   callError'[d] = callError[d] /\ doneCnt'[d] = doneCnt[d]
             /\ recvPc' = "read"
             /\ ~shutdown']_vars

\* C11, amended: a failed header read and a failed body read both lead to
\* terminateCalls.  A body that fails to decode gives its Call the
\* "reading body" error and the signal and touches no other Call in that
\* step; the loop is then left, and terminateCalls sets shutdown and
\* completes every Call still registered with the body-read error.
C11_BodyFailure ==
    /\ [](termSeen.ran =>
             /\ termSeen.err \in {ErrHeader, ErrBody}
             /\ shutdown
             /\ \A d \in termSeen.calls : callError[d] = termSeen.err)
    /\ [](recvPc = "terminate" => recvErr \in {ErrHeader, ErrBody})
    /\ [][DecodeFailStep =>
             /\ callError'[recvCall] = ErrReadingBody
             /\ callReply'[recvCall] = callReply[recvCall]
             /\ doneCnt'[recvCall] = doneCnt[recvCall] + 1
             /\ \A d \in Calls \ {recvCall} :
                   /\ callError'[d] = callError[d]
                   /\ doneCnt'[d] = doneCnt[d]
                   /\ callReply'[d] = callReply[d]
             /\ recvPc' = "terminate"
             /\ shutdown' = shutdown
             /\ pending' = pending]_vars

C11_Witness ==
    /\ termSeen.ran
    /\ termSeen.err = ErrBody
    /\ \E c \in Calls : callError[c] = ErrReadingBody /\ doneCnt[c] = 1
    /\ \E d \in termSeen.calls : callError[d] = ErrBody /\ doneCnt[d] = 1

\* the step of receive that handles a response some Call is registered for
\* and whose header carries an error string
RemoteErrStep ==
    /\ recvPc = "body"
    /\ recvPc' # "body"
    /\ recvCall # NoCall
    /\ recvHeader.Error # ""

\* the step of send that follows a failed write: removeCall(seq), the
\* completion of the Call found, sending.Unlock()
WriteFailStep(c) == pc[c] = "writeFailed" /\ pc'[c] # "writeFailed"

\* C12, as claimed: after a failed write send removes exactly its Call and
\* completes it with the write error; closing, shutdown and the sequence
\* counter keep their values and every other Call stays registered and
\* unsignalled.
C12_AsClaimed ==
    [][\A c \in Calls : WriteFailStep(c) =>
          /\ callSeq[c] \notin DOMAIN pending'
          /\ callError'[c] = ErrWrite
          /\ doneCnt'[c] = doneCnt[c] + 1
          /\ pending' = deleteCall(pending, callSeq[c])
          /\ closing' = closing /\ shutdown' = shutdown /\ seq' = seq
          /\ \A d \in Calls \ {c} :
                /\ callError'[d] = callError[d]
                /\ doneCnt'[d] = doneCnt[d]
                /\ callReply'[d] = callReply[d]]_vars

\* C12, amended: after a failed write send removes its Call if it is still
\* registered and then completes it with the write error; when the dispatch
\* loop has already removed it (the server answered the incomplete frame),
\* send completes nothing.  Either way closing, shutdown and the sequence
\* counter keep their values and every other Call stays registered and
\* unsignalled.
C12_WriteFailure ==
    [][\A c \in Calls : WriteFailStep(c) =>
          /\ callSeq[c] \notin DOMAIN pending'
          /\ IF callSeq[c] \in DOMAIN pending
             THEN /\ pending[callSeq[c]] = c
                  /\ callError'[c] = ErrWrite
                  /\ doneCnt'[c] = doneCnt[c] + 1
             ELSE /\ callError'[c] = callError[c]
                  /\ doneCnt'[c] = doneCnt[c]
          /\ \A k \in DOMAIN pending \ {callSeq[c]} :
                k \in DOMAIN pending' /\ pending'[k] = pending[k]
          /\ DOMAIN pending' \subseteq DOMAIN pending
          /\ closing' = closing /\ shutdown' = shutdown /\ seq' = seq
          /\ callReply' = callReply
          /\ \A d \in Calls \ {c} :
                /\ callError'[d] = callError[d]
                /\ doneCnt'[d] = doneCnt[d]]_vars

C12_Witness ==
    \E c, d \in Calls :
       /\ c # d
       /\ writeRet[c] = ErrWrite
       /\ callError[c] = ErrWrite
       /\ doneCnt[c] = 1
       /\ callSeq[c] \notin DOMAIN pending
       /\ callSeq[d] \in DOMAIN pending
       /\ pending[callSeq[d]] = d
       /\ doneCnt[d] = 0
       /\ seq = 2

\* C13, as claimed: a response whose header carries an error completes only
\* the matching Call, with that error and its reply slot unwritten; closing
\* and shutdown are unchanged, the dispatch loop continues and no other
\* pending Call is touched.
C13_AsClaimed ==
    [][RemoteErrStep =>
          /\ callError'[recvCall] = recvHeader.Error
          /\ doneCnt'[recvCall] = doneCnt[recvCall] + 1
          /\ callReply' = callReply
          /\ closing' = closing /\ shutdown' = shutdown
          /\ pending' = pending
          /\ \A d \in Calls \ {recvCall} :
                callError'[d] = callError[d] /\ doneCnt'[d] = doneCnt[d]
          /\ recvPc' = "read"]_vars

\* C13, amended: as claimed, except that the dispatch loop continues only
\* when the read that discards the body succeeds; when that read fails the
\* loop is left for terminateCalls.
C13_RemoteError ==
    [][RemoteErrStep =>
          /\ callError'[recvCall] = recvHeader.Error
          /\ doneCnt'[recvCall] = doneCnt[recvCall] + 1
          /\ callReply' = callReply
          /\ closing' = closing /\ shutdown' = shutdown
          /\ pending' = pending
          /\ \A d \in Calls \ {recvCall} :
                callError'[d] = callError[d] /\ doneCnt'[d] = doneCnt[d]
          /\ recvPc' = IF recvErr' = Nil THEN "read" ELSE "terminate"]_vars

C13_Witness ==
    \E c, d \in Calls :
       /\ c # d
       /\ callError[c] = ErrRemote
       /\ callReply[c] = 0
       /\ doneCnt[c] = 1
       /\ recvPc = "read"
       /\ recvErr = Nil
       /\ ~shutdown
       /\ d \in PendingCalls(pending)
       /\ doneCnt[d] = 0

\* the callers between sending.Lock() and the end of their codec write
InSend == {c \in Calls : pc[c] \in {"write", "writeFailed"}}

\* C14: at most one caller is between sending.Lock() and the end of its
\* write, it is the holder of the mutex, and the header buffer given to its
\* write carries the Seq and the method of the Call it registered under
\* that same lock; every frame the server holds is the frame of one Call.
C14_SendSerialized ==
    /\ Cardinality(InSend) <= 1
    /\ \A c \in InSend : sending = c
    /\ sending # NoHolder => sending \in InSend
    /\ \A c \in Calls : pc[c] = "write" =>
          /\ header.Seq = callSeq[c]
          /\ header.ServiceMethod = ServiceMethodOf(c)
          /\ header.Error = ""
          /\ lookupCall(pending, header.Seq) = c
    /\ \A f \in wire : \E c \in Calls :
          /\ wrote[c]
          /\ f.Seq = callSeq[c]
          /\ f.ServiceMethod = ServiceMethodOf(c)
          /\ f.Args = ArgsOf(c)

C14_Witness ==
    /\ pc[2] = "write"
    /\ sending = 2
    /\ header.Seq = 1
    /\ header.ServiceMethod = ServiceMethodOf(2)
    /\ pc[1] = "wait"
    /\ \E f \in wire : f.Seq = 0 /\ f.ServiceMethod = ServiceMethodOf(1)

\* C15: whenever nobody holds the sending mutex, every Call in pending has
\* had its frame written by a cc.Write that returned nil.
C15_RegisteredIsWritten ==
    sending = NoHolder =>
       \A c \in PendingCalls(pending) : wrote[c] /\ writeRet[c] = Nil

C15_Witness ==
    /\ sending = NoHolder
    /\ \E c, d \in Calls :
          /\ c # d
          /\ c \in PendingCalls(pending)
          /\ writeRet[c] = Nil
          /\ writeRet[d] = ErrWrite
          /\ d \notin PendingCalls(pending)
          /\ pc[d] = "wait"

\* C17: the cancellation branch of Client.Call removes from pending only
\* the entry of its own Call; every entry of another Call stays.
C17_CancelRemovesOwn ==
    [][\A c \in Calls : CancelStep(c) =>
          \A k \in DOMAIN pending :
             pending[k] # c => (k \in DOMAIN pending' /\ pending'[k] = pending[k])]_vars

\* C18: after Client.Call has returned the cancellation error, no step
\* writes the Reply or the Error of that Call.
C18_NoWriteAfterCancel ==
    [][\A c \in Calls :
          (pc[c] = "returned" /\ result[c] = cancelError) =>
             (callReply'[c] = callReply[c] /\ callError'[c] = callError[c])]_vars

\* a successful registerCall: a Seq is handed out
RegisterStep ==
    seq' # seq \/ issued' # issued \/ ~(DOMAIN pending' \subseteq DOMAIN pending)

\* C20: closing and shutdown, once set, stay set; IsAvailable, once false,
\* stays false; and from then on no registerCall succeeds: no Seq is handed
\* out and nothing is added to pending.
C20_FlagsMonotonic ==
    /\ [][(closing => closing') /\ (shutdown => shutdown')]_vars
    /\ [][~IsAvailableRet =>
             /\ ~IsAvailableRet'
             /\ ~RegisterStep]_vars
    /\ [](\A c \in Calls :
             (lateSubmit[c].closed \/ lateSubmit[c].terminated) =>
                (pc[c] # "write" /\ ~wrote[c] /\ callError[c] = ErrShutdown))

C20_Witness ==
    /\ closing
    /\ shutdown
    /\ ~IsAvailableRet
    /\ \E c, d \in Calls :
          /\ wrote[c]
          /\ lateSubmit[d].closed
          /\ lateSubmit[d].terminated
          /\ callError[d] = ErrShutdown
          /\ pc[d] = "returned"

\* C19: the worker goroutine dialTimeout spawns always terminates in the
\* end, its send on the result channel completing, also when the timer
\* fires first.
C19_WorkerTerminates == (workerPc # "none") ~> (workerPc = "done")

\* C16: receive neither holds nor asks for client.sending while it is in
\* its loop, terminateCalls holds client.sending whenever it holds
\* client.mu, and no goroutine waits for a mutex forever: the holder of
\* client.mu never waits for a mutex, a holder of client.sending waits at
\* most for client.mu, and while any goroutine is inside a function some
\* goroutine can take a step.
C16_LockDiscipline ==
    /\ LkInLoop => (lkHolder["sending"] # RecvT /\ ~LkWants(RecvT, "sending"))
    /\ (lkHolder["mu"] = RecvT /\ ~LkInLoop) => lkHolder["sending"] = RecvT
    /\ \A t \in LockThreads : lkHolder["mu"] = t => ~LkBlocked(t)
    /\ \A t \in LockThreads :
          (lkHolder["sending"] = t /\ LkBlocked(t)) =>
             (LkWants(t, "mu") /\ lkHolder["mu"] # t)
    /\ (\E t \in LockThreads : lkTodo[t] # <<>>) => ENABLED LkProgress

C16_Witness ==
    /\ lkHolder["sending"] \in Calls
    /\ LkBlocked(lkHolder["sending"])
    /\ lkHolder["mu"] = CloseT
    /\ LkWants(RecvT, "sending")
    /\ LkWants(AvailT, "mu")
    /\ lkRounds = MaxLoops

====
